---------------------------- MODULE Spec2Model ----------------------------
(* A state-machine model of imitation_learning/dagger.py (Python 2):      *)
(* rollout, test_policy_sys, save_data and dagger.  Python values that    *)
(* may be of several types (an int, None, the Expert object, a policy     *)
(* handle) are records [kind, val]; dictionaries keyed by strings are     *)
(* functions whose keys are tuples of one-character strings, so that      *)
(* Python's iteration over a dict (its keys) and its tuple unpacking of a *)
(* key can be computed as the interpreter computes them.  Real numbers    *)
(* are exact rationals <<numerator, denominator>>.                        *)
EXTENDS Integers, Sequences, FiniteSets, TLC

VARIABLES
    pc,             \* position in dagger / test_policy_sys ("direct": rollout called alone)
    cfg,            \* dagger's scalar arguments
    options,        \* dagger's **options: option name -> value
    schema,         \* the keys of the System's observation dict, in iteration order
    env,            \* the ranges of the stubs: [obs, rewards, actions] the System and the
                    \* learner's policy may return
    stub,           \* the collaborators: [fields, expertAuto, faulty] = the fields the
                    \* learner requires (KerasLearner.fields), what expert.autonomous()
                    \* returns, and whether a collaborator's call may fail
    data,           \* dagger's accumulated data dict
    saved,          \* what the last save_data of the accumulated data wrote
    testSaves,      \* prefixes of the test datasets save_data wrote
    fits,           \* number of learner.fit calls completed
    policy,         \* dagger's local `policy`
    mixing,         \* dagger's local `mixing`
    iter,           \* dagger's loop variable
    stats,          \* test_policy_sys's mean and variance of r, as [mu, sigma]
    ro,             \* rollout's parameters [policy, T, N, expert, mixing, mwr]
    rpc,            \* position in rollout
    r, t,           \* rollout's loop variables
    use_imlearn,    \* rollout's local
    autonomous,     \* the flag last passed to system.wait_for_rollout
    obs,            \* rollout's local `obs` (the token every field of the dict carries)
    rdata,          \* rollout's local `data`
    err,            \* the exception that ended the run, "none" if none
    recAt,          \* history: per appended record, <<episode, timestep>>
    recIn,          \* history: per appended record, the obs the policy was given
    recOut,         \* history: per appended record, the obs whose fields line 39 read
    epDone,         \* history: per episode of this rollout, first timestep with done (-1: none)
    epRewards,      \* history: per episode of this rollout, sum of the recorded rewards
    expertQueried,  \* history: rollout evaluated an attribute of its `expert`
    epCalls,        \* history: per episode of this rollout, the calls made:
                    \* [wait, flag, policy, expert, step, late]
    draws,          \* history: number of calls of np.random.random in this rollout
    noneSent,       \* history: this rollout passed None to system.step
    expected,       \* history: the loaded data followed by every batch dagger was handed
    calls,          \* history: the parameters of each rollout call of the loop
    log             \* history: the phases of dagger that were entered

vars == <<pc, cfg, options, schema, env, stub, data, saved, testSaves, fits, policy,
          mixing, iter, stats, ro, rpc, r, t, use_imlearn, autonomous, obs, rdata, err,
          recAt, recIn, recOut, epDone, epRewards, expertQueried, epCalls, draws, noneSent,
          expected, calls, log>>

----------------------------------------------------------------------------
(* Bounds of the model                                                     *)

MaxT == 2
MaxN == 1
MaxTimesteps == 1
MaxRollouts == 1
MaxIter == 2

ObsVals == {0, 1}
Rewards == {1, 2}
LearnerActions == {0, 1}
Env(o, rw, a) == [obs |-> o, rewards |-> rw, actions |-> a]
Stub(fields, auto, faulty) == [fields |-> fields, expertAuto |-> auto, faulty |-> faulty]

----------------------------------------------------------------------------
(* Python values                                                           *)

IntObj(n) == [kind |-> "int", val |-> n]
NoneObj == [kind |-> "None", val |-> 0]
ExpertObj == [kind |-> "Expert", val |-> 0]
\* LearnerPolicy that hands out the policy of the unfitted learner
LearnerPolicyFirst(version) == [kind |-> "learner", val |-> 0]

\* learner.get_policy() after `version` fits
LearnerPolicy(version) == [kind |-> "learner", val |-> version]

IsInt(v) == v.kind = "int"

(* Rationals *)
Rat(a, b) == <<a, b>>
RatMul(x, y) == <<x[1] * y[1], x[2] * y[2]>>
RatEq(x, y) == x[1] * y[2] = y[1] * x[2]
RatLt(x, y) == x[1] * y[2] < y[1] * x[2]
RatLe(x, y) == x[1] * y[2] <= y[1] * x[2]
RECURSIVE RatPow(_, _)
RatPow(x, k) == IF k = 0 THEN Rat(1, 1) ELSE RatMul(x, RatPow(x, k - 1))

Zero == Rat(0, 1)
One == Rat(1, 1)
Half == Rat(1, 2)
Rates == {Zero, Half, One}

(* The observation dicts the System returns: their keys in iteration order. *)
Schemas == { <<>>,
             << <<"i", "m", "g">> >>,
             << <<"v", "x">> >>,
             << <<"v", "x">>, <<"v", "y">> >> }

EmptyData == [observations |-> <<>>, hasTargets |-> TRUE,
              targets |-> <<>>, actions |-> <<>>, rewards |-> <<>>]

----------------------------------------------------------------------------
(* rollout                                                                 *)

\* np.isclose(mixing, 0.0): |mixing| <= atol = 1e-8
IsCloseZero(m) == (IF m[1] < 0 THEN 0 - m[1] ELSE m[1]) * 100000000 <= m[2]

\* line 20
Mix(expert, m) == expert.kind # "None" /\ ~IsCloseZero(m)

\* `np.random.random < mixing`: the function object itself (it is not called)
\* is compared with a float.  The repository is Python 2 (__metaclass__,
\* `from learner import Learner`), where a number orders before any object of
\* another type, so the comparison is False for every mixing.
SampleBelowMixing(m) == FALSE

\* UseImlearn with its two branches swapped
UseImlearnSwapped(mix, m) == IF mix /\ SampleBelowMixing(m) THEN TRUE ELSE FALSE

\* lines 23 and 33-34
UseImlearn(mix, m) == IF mix /\ SampleBelowMixing(m) THEN FALSE ELSE TRUE

\* expert.action(obs), and the expert called as a policy
ExpertAction(o) == 2 + o

\* line 36: which action is sent to the system
Target(useIm, action, o) == IF useIm THEN action ELSE ExpertAction(o)

\* line 24: `use_imlearn or expert.autonomous`; the method is named, not
\* called, and a bound method object is true
Autonomous(useIm, expert) == useIm \/ expert.kind = "Expert"

\* what a Python function returns when it ends without a return statement
NoneAction == -1

\* learners.py 158-164, the policy of a KerasLearner: a field of self.fields
\* that the observation lacks raises KeyError inside the try; the handler logs
\* it and the function ends without a return statement
KerasPolicy(fields, keys, prediction) ==
    IF \E i \in 1..Len(fields) : \A j \in 1..Len(keys) : keys[j] # fields[i]
    THEN NoneAction ELSE prediction

\* the failures a call of the System (or of the expert used as the policy)
\* may end with
CallFaults == IF stub.faulty THEN {"none", "SystemFailure"} ELSE {"none"}

\* the calls an episode has made so far, none yet
NoCalls == [wait |-> 0, flag |-> TRUE, learner |-> TRUE, policy |-> 0, expert |-> 0,
            step |-> 0, late |-> 0]

\* dict.append on a defaultdict(list)
AppendObs(d, key, val) ==
    IF key \in DOMAIN d THEN [d EXCEPT ![key] = Append(@, val)]
    ELSE d @@ (key :> <<val>>)

\* lines 39-40: `for field, value in obs` iterates the KEYS of the dict and
\* unpacks each key into two; a key that is not of length 2 raises ValueError.
RECURSIVE RecordObs(_, _, _)
RecordObs(d, keys, i) ==
    IF i > Len(keys) THEN [observations |-> d, err |-> "none"]
    ELSE IF Len(keys[i]) # 2 THEN [observations |-> d, err |-> "ValueError"]
    ELSE RecordObs(AppendObs(d, <<keys[i][1]>>, keys[i][2]), keys, i + 1)

\* lines 39-43
AppendRecord(d, keys, target, action, reward) ==
    LET o == RecordObs(d.observations, keys, 1) IN
    IF o.err # "none" THEN [data |-> [d EXCEPT !.observations = o.observations], err |-> o.err]
    ELSE [data |-> [d EXCEPT !.observations = o.observations,
                             !.targets = Append(@, target),
                             !.actions = Append(@, action),
                             !.rewards = Append(@, reward)],
          err |-> "none"]

dvars == <<cfg, options, data, saved, testSaves, fits, policy, mixing, iter,
           stats, calls, log, expected>>

\* rollout's entry, lines 9-21: the parameters are bound and data is created
EnterRollout(p, T, N, expert, m, mwr) ==
    /\ ro' = [policy |-> p, T |-> T, N |-> N, expert |-> expert,
              mixing |-> m, mwr |-> mwr]
    /\ rpc' = "episode"
    /\ r' = 0
    /\ t' = 0
    /\ use_imlearn' = TRUE
    /\ rdata' = EmptyData
    /\ recAt' = <<>>
    /\ recIn' = <<>>
    /\ recOut' = <<>>
    /\ epDone' = <<>>
    /\ epRewards' = <<>>
    /\ expertQueried' = FALSE
    /\ epCalls' = <<>>
    /\ draws' = 0
    /\ noneSent' = FALSE

\* Abort that leaves the caller where it was, to make the call again
AbortRetry(e) ==
    /\ err' = e
    /\ pc' = pc

\* an exception leaves dagger (or test_policy_sys): neither has a try statement
Abort(e) ==
    /\ err' = e
    /\ pc' = "raised"

\* an exception leaves rollout, which has no try statement, and its caller
Raise(e) ==
    /\ Abort(e)
    /\ rpc' = "raised"

\* the failures the calls of one timestep may end with: the policy's when the
\* policy is the expert (line 35), expert.action's (line 36), system.step's
StepFaults(expertCalled) ==
    IF stub.faulty
    THEN {"none", "SystemFailure"} \cup (IF expertCalled THEN {"ExpertFailure"} ELSE {})
    ELSE {"none"}

\* lines 21-31: one pass of `for r in range(N)` up to the evaluation of range(T)
RolloutEpisode ==
    /\ rpc = "episode"
    /\ r < ro.N.val
    /\ LET mix == Mix(ro.expert, ro.mixing)
           ui == UseImlearn(mix, ro.mixing)
       IN /\ use_imlearn' = ui
          /\ expertQueried' = (expertQueried \/ ~ui)
          /\ IF ~ui /\ ro.expert.kind # "Expert"
             THEN \* None.autonomous / int.autonomous
                  /\ Raise("AttributeError")
                  /\ UNCHANGED <<autonomous, obs, t, epDone, epRewards, epCalls>>
             ELSE /\ autonomous' = Autonomous(ui, ro.expert)
                  /\ epCalls' = Append(epCalls,
                        [NoCalls EXCEPT !.wait = 1, !.flag = autonomous',
                                        !.learner = ui /\ ro.policy.kind # "Expert"])
                  /\ \E o \in env.obs, f \in CallFaults :
                       IF f # "none"
                       THEN \* system.wait_for_rollout fails
                            /\ Raise(f)
                            /\ UNCHANGED <<obs, t, epDone, epRewards>>
                       ELSE /\ obs' = o
                            /\ IF IsInt(ro.T)
                               THEN /\ t' = 0
                                    /\ rpc' = "step"
                                    /\ epDone' = Append(epDone, -1)
                                    /\ epRewards' = Append(epRewards, 0)
                                    /\ UNCHANGED <<err, pc>>
                               ELSE \* range(T) of an object that is no integer
                                    /\ Raise("TypeError")
                                    /\ UNCHANGED <<t, epDone, epRewards>>
    /\ UNCHANGED <<dvars, schema, env, stub, ro, r, rdata, recAt, recIn, recOut, draws, noneSent>>

\* lines 31-43: one pass of `for t in range(T)`
RolloutStep ==
    /\ rpc = "step"
    /\ t < ro.T.val
    /\ \E a \in env.actions, o \in env.obs, rew \in env.rewards, done \in BOOLEAN :
        LET ui == IF ro.mwr THEN UseImlearn(Mix(ro.expert, ro.mixing), ro.mixing)
                  ELSE use_imlearn
            action == IF ro.policy.kind = "Expert" THEN ExpertAction(obs)
                      ELSE KerasPolicy(stub.fields, schema, a)
            target == Target(ui, action, obs)
            rec == AppendRecord(rdata, schema, target, action, rew)
            late == IF epDone[r + 1] # -1 THEN 1 ELSE 0
        IN /\ use_imlearn' = ui
           /\ expertQueried' = (expertQueried \/ ~ui)
           /\ IF ~ui /\ ro.expert.kind # "Expert"
              THEN \* None.action / int.action
                   /\ Raise("AttributeError")
                   /\ epCalls' = [epCalls EXCEPT ![r + 1].policy = @ + 1]
                   /\ UNCHANGED <<obs, t, rdata, recAt, recIn, recOut, epDone, epRewards, noneSent>>
              ELSE \E f \in StepFaults(ro.policy.kind = "Expert" \/ ~ui) :
                   IF f = "ExpertFailure"
                   THEN \* the expert (as the policy, or its action method) fails
                        /\ Raise(f)
                        /\ epCalls' = [epCalls EXCEPT ![r + 1].policy = @ + 1,
                                                      ![r + 1].expert = @ + 1]
                        /\ UNCHANGED <<obs, t, rdata, recAt, recIn, recOut, epDone, epRewards,
                                       noneSent>>
                   ELSE
                   /\ epCalls' = [epCalls EXCEPT ![r + 1].policy = @ + 1,
                                                 ![r + 1].expert = @ + (IF ui THEN 0 ELSE 1),
                                                 ![r + 1].step = @ + 1,
                                                 ![r + 1].late = @ + late]
                   /\ noneSent' = (noneSent \/ target = NoneAction)
                   /\ IF f = "SystemFailure"
                      THEN \* system.step fails
                           /\ Raise(f)
                           /\ UNCHANGED <<obs, t, rdata, recAt, recIn, recOut, epDone, epRewards>>
                      ELSE
                      /\ obs' = o
                      /\ epDone' = IF done /\ epDone[r + 1] = -1
                                   THEN [epDone EXCEPT ![r + 1] = t] ELSE epDone
                      /\ IF done
                         THEN /\ t' = t + 1
                              /\ UNCHANGED <<rdata, recAt, recIn, recOut, epRewards, err, rpc, pc>>
                         ELSE /\ rdata' = rec.data
                              /\ IF rec.err # "none"
                                 THEN /\ Raise(rec.err)
                                      /\ UNCHANGED <<t, recAt, recIn, recOut, epRewards>>
                                 ELSE /\ t' = t + 1
                                      /\ recAt' = Append(recAt, <<r, t>>)
                                      /\ recIn' = Append(recIn, obs)
                                      /\ recOut' = Append(recOut, o)
                                      /\ epRewards' = [epRewards EXCEPT ![r + 1] = @ + rew]
                                      /\ UNCHANGED <<err, rpc, pc>>
    /\ UNCHANGED <<dvars, schema, env, stub, ro, r, autonomous, draws>>

\* lines 44-47: the timestep loop is exhausted
RolloutEpisodeEnd ==
    /\ rpc = "step"
    /\ t >= ro.T.val
    /\ r' = r + 1
    /\ rpc' = "episode"
    /\ UNCHANGED <<dvars, schema, env, stub, pc, ro, t, use_imlearn, autonomous, obs, rdata,
                   err, recAt, recIn, recOut, epDone, epRewards, expertQueried, epCalls, draws,
                   noneSent>>

\* line 48
RolloutReturn ==
    /\ rpc = "episode"
    /\ r >= ro.N.val
    /\ rpc' = "returned"
    /\ UNCHANGED <<dvars, schema, env, stub, pc, ro, r, t, use_imlearn, autonomous, obs, rdata,
                   err, recAt, recIn, recOut, epDone, epRewards, expertQueried, epCalls, draws,
                   noneSent>>

RolloutNext == RolloutEpisode \/ RolloutStep \/ RolloutEpisodeEnd \/ RolloutReturn

NoCfg == [timesteps |-> 0, rollouts |-> 0, iterations |-> 0, mixing_rate |-> Zero,
          loaded |-> FALSE, pretrain |-> FALSE, test_expert |-> FALSE,
          test_initial |-> FALSE, test_policy |-> FALSE, test_final |-> FALSE]

IdleDagger ==
    /\ cfg = NoCfg
    /\ options = <<>>
    /\ data = EmptyData
    /\ saved = EmptyData
    /\ testSaves = {}
    /\ fits = 0
    /\ policy = NoneObj
    /\ mixing = One
    /\ iter = 0
    /\ stats = [mu |-> Zero, sigma |-> Zero]
    /\ calls = <<>>
    /\ log = <<>>
    /\ expected = EmptyData

FreshRollout(p, T, N, expert, m, mwr) ==
    /\ ro = [policy |-> p, T |-> T, N |-> N, expert |-> expert,
             mixing |-> m, mwr |-> mwr]
    /\ rpc = "episode"
    /\ r = 0
    /\ t = 0
    /\ use_imlearn = TRUE
    /\ autonomous = TRUE
    /\ obs = 0
    /\ rdata = EmptyData
    /\ err = "none"
    /\ recAt = <<>>
    /\ recIn = <<>>
    /\ recOut = <<>>
    /\ epDone = <<>>
    /\ epRewards = <<>>
    /\ expertQueried = FALSE
    /\ epCalls = <<>>
    /\ draws = 0
    /\ noneSent = FALSE

\* rollout(logger, system, policy, T, N, expert, mixing, mix_within_rollout)
\* called on its own
InitRollout ==
    /\ pc = "direct"
    /\ IdleDagger
    /\ schema \in Schemas
    /\ env \in {Env(ObsVals, {1}, {0}), Env({0}, {1}, LearnerActions)}
    /\ stub \in {Stub(<<>>, a, FALSE) : a \in BOOLEAN}
    /\ \E p \in {LearnerPolicy(0), ExpertObj}, T \in 0..MaxT, N \in 0..MaxN,
          e \in {NoneObj, ExpertObj}, m \in Rates, mwr \in BOOLEAN :
          FreshRollout(p, IntObj(T), IntObj(N), e, m, mwr)

SpecRollout == InitRollout /\ [][RolloutNext]_vars

----------------------------------------------------------------------------
(* KerasLearner (learners.py)                                              *)

\* the fields of self.fields that the dict does not have
MissingFields(fields, d) == {fields[i] : i \in 1..Len(fields)} \ DOMAIN d

\* observations[field] for every field of self.fields (line 139) on a
\* defaultdict(list), which rollout and dagger create (dagger.py 13, 165): a
\* missing key raises nothing; it is inserted with an empty list
DefaultLookup(fields, d) == [f \in MissingFields(fields, d) |-> <<>>] @@ d

\* KerasLearner.fit(observations, targets), learners.py 126-146, called with
\* the dataset a rollout returned; the dict of observations is a plain dict
\* or a defaultdict
KerasFit ==
    /\ pc = "direct"
    /\ rpc = "returned"
    /\ \E plain \in BOOLEAN, ok \in BOOLEAN :
         LET missing == MissingFields(stub.fields, rdata.observations) # {} IN
         /\ rdata' = IF missing /\ ~plain
                     THEN [rdata EXCEPT !.observations =
                                  DefaultLookup(stub.fields, rdata.observations)]
                     ELSE rdata
         /\ IF missing /\ plain
            THEN \* the KeyError is caught and logged (lines 140-141); line 143
                 \* then reads `inputs`, which was never bound
                 /\ Abort("UnboundLocalError")
                 /\ UNCHANGED fits
            ELSE IF stub.fields = <<>>
            THEN \* inputs = [] and line 143 reads inputs[0]
                 /\ Abort("IndexError")
                 /\ UNCHANGED fits
            ELSE IF ~ok
            THEN \* self.model.fit (Keras) raises
                 /\ Abort("FitFailure")
                 /\ UNCHANGED fits
            ELSE /\ fits' = fits + 1
                 /\ pc' = "fit_done"
                 /\ err' = err
    /\ UNCHANGED <<cfg, options, schema, env, stub, data, saved, testSaves, policy, mixing,
                   iter, stats, calls, log, expected, ro, rpc, r, t, use_imlearn,
                   autonomous, obs, recAt, recIn, recOut, epDone, epRewards, expertQueried,
                   epCalls, draws, noneSent>>

\* the values of self.fields (learner.py 26), as keys of the observation dict
LearnerFields == { << <<"v", "x">> >>, << <<"i", "m", "g">> >> }

\* a rollout with the policy of a KerasLearner, then fit on what it returned
InitKeras ==
    /\ pc = "direct"
    /\ IdleDagger
    /\ schema \in Schemas
    /\ env = Env({0}, {1}, LearnerActions)
    /\ stub \in {Stub(f, TRUE, FALSE) : f \in LearnerFields}
    /\ \E T \in 0..MaxT, N \in 0..MaxN :
          FreshRollout(LearnerPolicy(0), IntObj(T), IntObj(N), NoneObj, Zero, FALSE)

SpecKeras == InitKeras /\ [][RolloutNext \/ KerasFit]_vars

----------------------------------------------------------------------------
(* test_policy_sys                                                         *)

RECURSIVE SumSeq(_)
SumSeq(s) == IF s = <<>> THEN 0 ELSE Head(s) + SumSeq(Tail(s))
RECURSIVE SumSq(_)
SumSq(s) == IF s = <<>> THEN 0 ELSE Head(s) * Head(s) + SumSq(Tail(s))

\* np.mean and np.var (population variance) of a list; nan (0/0) when empty
Mean(s) == Rat(SumSeq(s), Len(s))
Var(s) == Rat(Len(s) * SumSq(s) - SumSeq(s) * SumSeq(s), Len(s) * Len(s))

\* line 55: r = [np.sum(data['rewards'][roll]) for roll in range(N)];
\* data['rewards'] is the flat list of recorded rewards, so its element roll
\* is one number and np.sum of it is that number
RewardList(d, N) == SubSeq(d.rewards, 1, N)

\* the caller's continuation after test_policy_sys returns
AfterTest(p) ==
    CASE p = "expert_test_run" -> "initial_test"
      [] p = "initial_test_run" -> "load"
      [] p = "policy_test_run" -> "loop"
      [] p = "final_test_run" -> "done"
      [] OTHER -> "test_done"

TestPrefix(p) ==
    CASE p = "expert_test_run" -> "expert_test"
      [] p = "initial_test_run" -> "initial_test"
      [] p = "policy_test_run" -> "policy_test"
      [] p = "final_test_run" -> "final_test"
      [] OTHER -> "none"

OptGet(o, k, d) == IF k \in DOMAIN o THEN o[k] ELSE d

\* the failures a save_data call may end with: it writes, and so can fail,
\* only when a path is given (line 64)
DataSaveFaults(writes) ==
    IF stub.faulty /\ writes THEN {"none", "DataSaveFailure"} ELSE {"none"}

TestRunning == {"test_run", "expert_test_run", "initial_test_run",
                "policy_test_run", "final_test_run"}

\* lines 54-59 after the rollout has returned, and the caller's save_data of
\* the test data (lines 153, 162, 226-227, 236)
TestPolicySysReturn ==
    /\ pc \in TestRunning
    /\ rpc = "returned"
    /\ IF Len(rdata.rewards) < ro.N.val
       THEN \* data['rewards'][roll] beyond the end of the list
            /\ Abort("IndexError")
            /\ UNCHANGED <<stats, testSaves, iter>>
       ELSE /\ stats' = [mu |-> Mean(RewardList(rdata, ro.N.val)),
                         sigma |-> Var(RewardList(rdata, ro.N.val))]
            /\ \E f \in DataSaveFaults(pc # "test_run" /\ "data_save_path" \in DOMAIN options) :
                 IF f # "none"
                 THEN \* np.savez of the test data fails
                      /\ Abort(f)
                      /\ UNCHANGED <<testSaves, iter>>
                 ELSE /\ testSaves' = IF pc # "test_run" /\ "data_save_path" \in DOMAIN options
                                      THEN testSaves \cup {TestPrefix(pc)} ELSE testSaves
                      /\ iter' = IF pc = "policy_test_run" THEN iter + 1 ELSE iter
                      /\ pc' = AfterTest(pc)
                      /\ err' = err
    /\ rpc' = "idle"
    /\ UNCHANGED <<cfg, options, schema, env, stub, data, saved, fits, policy, mixing,
                   ro, r, t, use_imlearn, autonomous, obs, rdata, recAt, recIn, recOut,
                   epDone, epRewards, expertQueried, epCalls, draws, noneSent,
                   expected, calls, log>>

\* test_policy_sys(logger, system, policy, T, N) called on its own
InitTest ==
    /\ pc = "test_run"
    /\ IdleDagger
    /\ schema = <<>>
    /\ env = Env(ObsVals, Rewards, {0})
    /\ stub = Stub(<<>>, TRUE, FALSE)
    /\ \E T \in 0..MaxT, N \in 0..MaxN :
          FreshRollout(LearnerPolicy(0), IntObj(T), IntObj(N), NoneObj, Zero, FALSE)

SpecTest == InitTest /\ [][RolloutNext \/ TestPolicySysReturn]_vars

----------------------------------------------------------------------------
(* dagger                                                                  *)

RECURSIVE SetToSeq(_)
SetToSeq(S) == IF S = {} THEN <<>>
               ELSE LET x == CHOOSE y \in S : TRUE IN <<x>> \o SetToSeq(S \ {x})

\* lines 164-169: the dict has the key 'targets:' and no key 'targets'
NewData == [observations |-> <<>>, hasTargets |-> FALSE,
            targets |-> <<>>, actions |-> <<>>, rewards |-> <<>>]

\* the fields a dataset of this System has
LoadedFields(keys) ==
    {IF Len(keys[i]) = 2 THEN <<keys[i][1]>> ELSE keys[i] : i \in 1..Len(keys)}

\* lines 172-177: the contents of the file loaded_data names, one aligned record
LoadedData(keys) ==
    [observations |-> [f \in LoadedFields(keys) |-> <<"l">>], hasTargets |-> TRUE,
     targets |-> <<2>>, actions |-> <<2>>, rewards |-> <<1>>]

\* lines 186-188 and 210-212: `for field, values in batch['observations']`
\* iterates the KEYS of the dict and unpacks each into two; list.extend of a
\* one-character string appends the character
RECURSIVE MergeObs(_, _, _, _)
MergeObs(d, b, keys, i) ==
    IF i > Len(keys) THEN [observations |-> d, err |-> "none"]
    ELSE IF Len(keys[i]) # 2 THEN [observations |-> d, err |-> "ValueError"]
    ELSE MergeObs(AppendObs(d, <<keys[i][1]>>, keys[i][2]), b, keys, i + 1)

\* Merge that keeps the batch in place of the accumulated data
MergeReplace(d, b) == [data |-> b, err |-> "none"]

\* lines 186-191 and 210-215
Merge(d, b) ==
    LET o == MergeObs(d.observations, b.observations,
                      SetToSeq(DOMAIN b.observations), 1)
        d1 == [d EXCEPT !.observations = o.observations]
    IN IF o.err # "none" THEN [data |-> d1, err |-> o.err]
       ELSE IF ~d.hasTargets THEN [data |-> d1, err |-> "KeyError"]
       ELSE [data |-> [d1 EXCEPT !.targets = @ \o b.targets,
                                 !.actions = @ \o b.actions,
                                 !.rewards = @ \o b.rewards],
             err |-> "none"]

\* SaveData that writes nothing, path or not
SaveDataNothing(path, d, old) == old

\* save_data, lines 62-75: writes only when a path is given
SaveData(path, d, old) == IF path # "None" THEN d ELSE old

\* Decay as `mixing = mixing_rate` in place of `mixing *= mixing_rate`
DecayAssign(m, rate) == rate

\* line 206
Decay(m, rate) == RatMul(m, rate)

\* a call rollout(logger, system, a1, a2, a3, a4, a5, a6): the positional
\* arguments bind to (policy, T, N, expert, mixing, mix_within_rollout)
CallRollout(args) ==
    EnterRollout(args[1], args[2], args[3], args[4], args[5], args[6])

\* test_policy_sys, line 54: rollout(logger, system, policy, T, N)
CallTest(p, T, N) == CallRollout(<<p, T, N, NoneObj, Zero, FALSE>>)

DataPath == OptGet(options, "data_save_path", "None")
Timesteps == IntObj(cfg.timesteps)
Rollouts == IntObj(cfg.rollouts)

rlocals == <<use_imlearn, autonomous, obs>>
rvars == <<ro, rpc, r, t, use_imlearn, autonomous, obs, rdata, recAt, recIn, recOut,
           epDone, epRewards, expertQueried, epCalls, draws, noneSent>>

\* the failures of learner.fit followed by save_model (lines 193-197 and
\* 217-221): learner.fit's, and learner.save's, which save_model calls only
\* when the option model_save_path is given (line 80)
FitFaults ==
    IF stub.faulty
    THEN {"none", "FitFailure"}
         \cup (IF "model_save_path" \in DOMAIN options THEN {"SaveFailure"} ELSE {})
    ELSE {"none"}

\* the dataset d followed by the records of the batch b, field by field
Handed(d, b) ==
    [observations |->
        [f \in DOMAIN d.observations \cup DOMAIN b.observations |->
            (IF f \in DOMAIN d.observations THEN d.observations[f] ELSE <<>>)
            \o (IF f \in DOMAIN b.observations THEN b.observations[f] ELSE <<>>)],
     hasTargets |-> TRUE,
     targets |-> d.targets \o b.targets,
     actions |-> d.actions \o b.actions,
     rewards |-> d.rewards \o b.rewards]

\* lines 149-153
ExpertTest ==
    /\ pc = "expert_test"
    /\ IF cfg.test_expert
       THEN /\ CallTest(ExpertObj, OptGet(options, "T_test", Timesteps),
                        OptGet(options, "n_roll_test", Rollouts))
            /\ pc' = "expert_test_run"
            /\ log' = Append(log, "expert_test")
            /\ UNCHANGED rlocals
       ELSE /\ pc' = "initial_test"
            /\ UNCHANGED <<rvars, log>>
    /\ UNCHANGED <<expected, cfg, options, schema, env, stub, data, saved, testSaves, fits, policy,
                   mixing, iter, stats, err, calls>>

\* lines 155-162
InitialTest ==
    /\ pc = "initial_test"
    /\ IF cfg.test_initial
       THEN /\ policy' = LearnerPolicy(fits)
            /\ CallTest(policy', OptGet(options, "timesteps_initial", Timesteps),
                        OptGet(options, "rollouts_initial", Rollouts))
            /\ pc' = "initial_test_run"
            /\ log' = Append(log, "initial_test")
            /\ UNCHANGED rlocals
       ELSE /\ pc' = "load"
            /\ UNCHANGED <<rvars, log, policy>>
    /\ UNCHANGED <<expected, cfg, options, schema, env, stub, data, saved, testSaves, fits,
                   mixing, iter, stats, err, calls>>

\* lines 164-177
LoadData ==
    /\ pc = "load"
    /\ data' = IF cfg.loaded THEN LoadedData(schema) ELSE NewData
    /\ expected' = IF cfg.loaded THEN LoadedData(schema) ELSE EmptyData
    /\ log' = IF cfg.loaded THEN Append(log, "load") ELSE log
    /\ pc' = "pretrain"
    /\ UNCHANGED <<cfg, options, schema, env, stub, saved, testSaves, fits, policy,
                   mixing, iter, stats, err, calls, rvars>>

\* lines 179-185
Pretrain ==
    /\ pc = "pretrain"
    /\ IF cfg.pretrain
       THEN /\ CallRollout(<<ExpertObj, OptGet(options, "timesteps_pretrain", Timesteps),
                             OptGet(options, "rollouts_pretrain", Rollouts),
                             NoneObj, Zero, FALSE>>)
            /\ pc' = "pretrain_run"
            /\ log' = Append(log, "pretrain")
            /\ UNCHANGED rlocals
       ELSE /\ pc' = "loop_init"
            /\ UNCHANGED <<rvars, log>>
    /\ UNCHANGED <<expected, cfg, options, schema, env, stub, data, saved, testSaves, fits, policy,
                   mixing, iter, stats, err, calls>>

\* lines 186-191 (pretraining) and 209-215 (an iteration)
MergeBatch ==
    /\ pc \in {"pretrain_run", "iter_run"}
    /\ rpc = "returned"
    /\ LET m == Merge(data, rdata) IN
        /\ data' = m.data
        /\ IF m.err # "none" THEN Abort(m.err)
           ELSE /\ pc' = IF pc = "pretrain_run" THEN "pretrain_save" ELSE "iter_save"
                /\ err' = err
    /\ expected' = Handed(expected, rdata)
    /\ rpc' = "idle"
    /\ UNCHANGED <<cfg, options, schema, env, stub, saved, testSaves, fits, policy, mixing,
                   iter, stats, calls, log, ro, r, t, use_imlearn, autonomous, obs,
                   rdata, recAt, recIn, recOut, epDone, epRewards, expertQueried, epCalls,
                   draws, noneSent>>

\* line 192 (prefix 'pretrain') and line 216
SaveAccumulated ==
    /\ pc \in {"pretrain_save", "iter_save"}
    /\ \E f \in DataSaveFaults(DataPath # "None") :
         IF f # "none"
         THEN \* np.savez fails
              /\ Abort(f)
              /\ UNCHANGED saved
         ELSE /\ saved' = SaveData(DataPath, data, saved)
              /\ pc' = IF pc = "pretrain_save" THEN "pretrain_fit" ELSE "iter_fit"
              /\ err' = err
    /\ UNCHANGED <<expected, cfg, options, schema, env, stub, data, testSaves, fits, policy,
                   mixing, iter, stats, calls, log, rvars>>

\* lines 193-197: learner.fit on the accumulated data, save_model
PretrainFit ==
    /\ pc = "pretrain_fit"
    /\ \E f \in FitFaults :
         /\ fits' = IF f = "FitFailure" THEN fits ELSE fits + 1
         /\ IF f # "none" THEN Abort(f)
            ELSE /\ pc' = "loop_init"
                 /\ err' = err
    /\ UNCHANGED <<expected, cfg, options, schema, env, stub, data, saved, testSaves, policy,
                   mixing, iter, stats, calls, log, rvars>>

\* lines 199-204
LoopInit ==
    /\ pc = "loop_init"
    /\ mixing' = One
    /\ policy' = LearnerPolicy(fits)
    /\ iter' = 0
    /\ pc' = "loop"
    /\ UNCHANGED <<expected, cfg, options, schema, env, stub, data, saved, testSaves, fits,
                   stats, err, calls, log, rvars>>

\* LoopGuard with one pass too many
LoopGuardOffByOne(i, iterations) == i <= iterations

\* line 205: `for iter in range(iterations)` has another pass to make
LoopGuard(i, iterations) == i < iterations

\* lines 205-208: the mixing probability is decayed and the rollout is called
\* as rollout(logger, system, policy, expert, T, N, mixing, mix_within_rollout)
Iteration ==
    /\ pc = "loop"
    /\ LoopGuard(iter, cfg.iterations)
    /\ mixing' = Decay(mixing, cfg.mixing_rate)
    /\ CallRollout(<<policy, ExpertObj, Timesteps, Rollouts, mixing',
                     OptGet(options, "mix_within_rollout", TRUE)>>)
    /\ calls' = Append(calls, mixing')
    /\ log' = Append(log, "iteration")
    /\ pc' = "iter_run"
    /\ UNCHANGED <<expected, cfg, options, schema, env, stub, data, saved, testSaves, fits, policy,
                   iter, stats, err, rlocals>>

\* lines 217-222: learner.fit, save_model, policy = learner.get_policy()
IterationFit ==
    /\ pc = "iter_fit"
    /\ \E f \in FitFaults :
         /\ fits' = IF f = "FitFailure" THEN fits ELSE fits + 1
         /\ IF f # "none"
            THEN /\ Abort(f)
                 /\ UNCHANGED policy
            ELSE /\ policy' = LearnerPolicy(fits')
                 /\ pc' = "policy_test"
                 /\ err' = err
    /\ UNCHANGED <<expected, cfg, options, schema, env, stub, data, saved, testSaves, mixing,
                   iter, stats, calls, log, rvars>>

\* lines 223-227
PolicyTest ==
    /\ pc = "policy_test"
    /\ IF cfg.test_policy
       THEN /\ CallTest(policy, OptGet(options, "T_test", Timesteps),
                        OptGet(options, "n_roll_test", Rollouts))
            /\ pc' = "policy_test_run"
            /\ log' = Append(log, "policy_test")
            /\ UNCHANGED <<rlocals, iter>>
       ELSE /\ pc' = "loop"
            /\ iter' = iter + 1
            /\ UNCHANGED <<rvars, log>>
    /\ UNCHANGED <<expected, cfg, options, schema, env, stub, data, saved, testSaves, fits, policy,
                   mixing, stats, err, calls>>

\* lines 229-240: the loop is exhausted; the final test, or the return
FinalTest ==
    /\ pc = "loop"
    /\ ~LoopGuard(iter, cfg.iterations)
    /\ IF cfg.test_final
       THEN /\ policy' = LearnerPolicy(fits)
            /\ CallTest(policy', OptGet(options, "timesteps_final", Timesteps),
                        OptGet(options, "rollouts_final", Rollouts))
            /\ pc' = "final_test_run"
            /\ log' = Append(log, "final_test")
            /\ UNCHANGED rlocals
       ELSE /\ pc' = "done"
            /\ UNCHANGED <<rvars, log, policy>>
    /\ UNCHANGED <<expected, cfg, options, schema, env, stub, data, saved, testSaves, fits,
                   mixing, iter, stats, err, calls>>

DaggerNext ==
    \/ ExpertTest \/ InitialTest \/ LoadData \/ Pretrain \/ MergeBatch
    \/ SaveAccumulated \/ PretrainFit \/ LoopInit \/ Iteration \/ IterationFit
    \/ PolicyTest \/ FinalTest \/ TestPolicySysReturn

Next == DaggerNext \/ RolloutNext

\* per-phase overrides of the timestep and rollout counts
Overrides ==
    [T_test |-> IntObj(1), n_roll_test |-> IntObj(1),
     timesteps_initial |-> IntObj(1), rollouts_initial |-> IntObj(1),
     timesteps_pretrain |-> IntObj(1), rollouts_pretrain |-> IntObj(1),
     timesteps_final |-> IntObj(1), rollouts_final |-> IntObj(1)]

OptionSets ==
    { (p @@ m) @@ o : p \in {<<>>, [data_save_path |-> "d"]},
                      m \in {<<>>, [mix_within_rollout |-> FALSE]},
                      o \in {<<>>, Overrides} }

\* dagger's scalar arguments, drawn from the given ranges
Configs(ts, rs, its, rates) ==
    [timesteps : ts, rollouts : rs, iterations : its, mixing_rate : rates,
     loaded : BOOLEAN, pretrain : BOOLEAN, test_expert : BOOLEAN,
     test_initial : BOOLEAN, test_policy : BOOLEAN, test_final : BOOLEAN]

\* line 136: dagger is entered; nothing has been done yet
DaggerEntry ==
    /\ pc = "expert_test"
    /\ data = NewData
    /\ saved = NewData
    /\ testSaves = {}
    /\ fits = 0
    /\ policy = NoneObj
    /\ mixing = One
    /\ iter = 0
    /\ stats = [mu |-> Zero, sigma |-> Zero]
    /\ calls = <<>>
    /\ log = <<>>
    /\ expected = EmptyData
    /\ ro = [policy |-> NoneObj, T |-> IntObj(0), N |-> IntObj(0), expert |-> NoneObj,
             mixing |-> Zero, mwr |-> FALSE]
    /\ rpc = "idle"
    /\ r = 0
    /\ t = 0
    /\ use_imlearn = TRUE
    /\ autonomous = TRUE
    /\ obs = 0
    /\ rdata = EmptyData
    /\ err = "none"
    /\ recAt = <<>>
    /\ recIn = <<>>
    /\ recOut = <<>>
    /\ epDone = <<>>
    /\ epRewards = <<>>
    /\ expertQueried = FALSE
    /\ epCalls = <<>>
    /\ draws = 0
    /\ noneSent = FALSE

\* dagger(system, expert, learner, timesteps, rollouts, iterations, ...)
Init ==
    /\ cfg \in Configs(0..MaxTimesteps, 0..MaxRollouts, 0..MaxIter, Rates)
    /\ options \in OptionSets
    /\ schema \in {k \in Schemas : Len(k) <= 1}
    /\ env = Env({0}, {1}, {0})
    /\ stub = Stub(<<>>, TRUE, FALSE)
    /\ DaggerEntry

Spec == Init /\ [][Next]_vars

\* the option names the docstring gives for the pretraining rollout (lines
\* 123-124)
DocOverrides == [T_pretrain |-> IntObj(1), roll_pretrain |-> IntObj(1)]

\* mixing rates outside [0,1], and one inside
WideRates == {Rat(-1, 2), Half, Rat(3, 2)}

\* dagger called with any integers and any rate: nothing restricts the
\* arguments (lines 90-93)
InitArgs ==
    /\ cfg \in Configs(-1..MaxTimesteps, -1..MaxRollouts, -1..1, WideRates)
    /\ options \in {<<>>, DocOverrides}
    /\ schema = <<>>
    /\ env = Env({0}, {1}, {0})
    /\ stub = Stub(<<>>, TRUE, FALSE)
    /\ DaggerEntry

SpecArgs == InitArgs /\ [][Next]_vars

\* dagger with a System, an Expert and a Learner whose calls may raise, and
\* with or without the paths that make save_data and save_model write
InitFail ==
    /\ cfg \in Configs(0..MaxTimesteps, 0..MaxRollouts, 0..MaxIter, {Half})
    /\ options \in {<<>>, [data_save_path |-> "d", model_save_path |-> "m"]}
    /\ schema = <<>>
    /\ env = Env({0}, {1}, {0})
    /\ stub = Stub(<<>>, TRUE, TRUE)
    /\ DaggerEntry

SpecFail == InitFail /\ [][Next]_vars

----------------------------------------------------------------------------
(* Properties of rollout                                                   *)

SeqLens(d) == {Len(d.targets), Len(d.actions), Len(d.rewards)}
                 \cup {Len(d.observations[f]) : f \in DOMAIN d.observations}

\* every sequence of the dataset exists and all have one length
Aligned(d) == d.hasTargets /\ Cardinality(SeqLens(d)) = 1

\* C1 (as claimed): once system.step has returned done at timestep t of an
\* episode, the rollout's data holds no record of timestep t or of a later
\* timestep of that episode.
C1_TruncationOnDone ==
    \A i \in 1..Len(recAt) :
        LET d == epDone[recAt[i][1] + 1] IN d = -1 \/ recAt[i][2] < d

\* C2 (as claimed): with an expert, mixing probability 1.0 and per-timestep
\* mixing, every recorded target is the expert's action for the observation
\* of that timestep.
C2_ExpertForced ==
    (ro.expert = ExpertObj /\ RatEq(ro.mixing, One) /\ ro.mwr)
        => \A i \in 1..Len(rdata.targets) :
               rdata.targets[i] = ExpertAction(recIn[i])

\* C3: with expert = None every recorded target is the recorded learner
\* action, for any mixing probability and granularity, and no attribute of
\* the expert is evaluated.
C3_NoMixingWithoutExpert ==
    ro.expert = NoneObj
        => /\ rdata.targets = rdata.actions
           /\ ~expertQueried
           /\ err # "AttributeError"

C3_Witness ==
    /\ pc = "direct"
    /\ rpc = "returned"
    /\ ro.expert = NoneObj
    /\ RatEq(ro.mixing, One)
    /\ ro.mwr
    /\ Len(rdata.targets) >= 2
    /\ rdata.targets[1] # rdata.targets[2]

\* C6 (as claimed): the dataset a rollout returns has targets, actions,
\* rewards and every per-field observation sequence of one length.
C6_RolloutAligned == rpc = "returned" => Aligned(rdata)

\* C7 (as claimed): test_policy_sys over N >= 1 episodes computes the mean
\* and the population variance of the N per-episode sums of recorded rewards.
C7_EpisodeStatistics ==
    (pc = "test_done" /\ ro.N.val >= 1)
        => /\ RatEq(stats.mu, Mean(epRewards))
           /\ RatEq(stats.sigma, Var(epRewards))

\* no step of this rollout has returned done
NeverDone == \A e \in 1..Len(epDone) : epDone[e] = -1

\* the steps of N episodes of T timesteps, in the order they are made
StepOrder(N, T) == [i \in 1..(N * T) |-> <<(i - 1) \div T, (i - 1) % T>>]

\* C15 (as claimed): a rollout of N episodes of T timesteps in which no step
\* returns done returns a dataset of exactly N*T records, one per step in
\* step order, every sequence of it of that length; with no expert each
\* record's target is its action, the policy's output.
C15_CompleteRecording ==
    (rpc \in {"returned", "raised"} /\ NeverDone)
        => /\ rpc = "returned"
           /\ Aligned(rdata)
           /\ Len(rdata.targets) = ro.N.val * ro.T.val
           /\ recAt = StepOrder(ro.N.val, ro.T.val)
           /\ ro.expert = NoneObj => rdata.targets = rdata.actions

\* C18 (as claimed): every episode calls wait_for_rollout exactly once,
\* before its first step, and the flag it passes is true exactly when the
\* episode is driven by the learner or expert.autonomous() returns true.
C18_AutonomousFlag ==
    /\ Len(epCalls) = (IF rpc = "step" THEN r + 1 ELSE r)
           \/ rpc \in {"idle", "raised"}
    /\ \A e \in 1..Len(epCalls) :
         /\ epCalls[e].wait = 1
         /\ epCalls[e].flag = (epCalls[e].learner \/ stub.expertAuto)

\* C19 (as claimed): an episode in which system.step has returned done at
\* timestep d has made d + 1 policy calls and d + 1 step calls and none (of
\* the policy, the expert or system.step) after that; no episode makes more
\* than T step calls.
C19_EndsEarly ==
    \A e \in 1..Len(epDone) :
        /\ epCalls[e].step <= ro.T.val
        /\ epCalls[e].late = 0
        /\ epDone[e] # -1
             => /\ epCalls[e].policy = epDone[e] + 1
                /\ epCalls[e].step = epDone[e] + 1

\* the number of timesteps this rollout has begun
RECURSIVE TimestepsBegun(_)
TimestepsBegun(s) == IF s = <<>> THEN 0 ELSE Head(s).policy + TimestepsBegun(Tail(s))

\* C20 (as claimed): with an expert and mixing enabled, under
\* mix_within_rollout = false every timestep of an episode uses the one source
\* decided for the episode (the expert is asked at every timestep of it or at
\* none); under mix_within_rollout = true a sample is drawn for the decision
\* of every timestep.
C20_DecisionGranularity ==
    (ro.expert = ExpertObj /\ Mix(ro.expert, ro.mixing) /\ rpc \in {"episode", "step", "returned"})
        => IF ro.mwr
           THEN draws >= TimestepsBegun(epCalls)
           ELSE \A e \in 1..Len(epCalls) : epCalls[e].expert \in {0, epCalls[e].policy}

\* C22 (as claimed): for a System whose observation has a field, the
\* observation whose fields are stored with a record is the one the policy
\* (and the expert) were given when they produced the record's action and
\* target.
C22_RecordPairing ==
    schema # <<>> => \A i \in 1..Len(recOut) : recOut[i] = recIn[i]

----------------------------------------------------------------------------
(* Properties of dagger                                                    *)

\* C4 (as claimed): the rollout of an iteration runs with policy = the
\* current policy, T = timesteps, N = rollouts, expert = the expert, mixing =
\* the decayed probability and mix_within_rollout = the configured granularity.
C4_IterationRolloutArguments ==
    pc = "iter_run"
        => /\ ro.policy = policy
           /\ ro.T = Timesteps
           /\ ro.N = Rollouts
           /\ ro.expert = ExpertObj
           /\ RatEq(ro.mixing, mixing)
           /\ ro.mwr = OptGet(options, "mix_within_rollout", TRUE)

\* the positions of dagger at which the accumulated data exists
DataLive == {"pretrain", "pretrain_run", "pretrain_save", "pretrain_fit",
             "loop_init", "loop", "iter_run", "iter_save", "iter_fit",
             "policy_test", "policy_test_run", "final_test_run", "done"}

\* C5 (as claimed): from its construction on, the accumulated data has
\* targets, actions, rewards and every observation field of one length.
C5_AccumulatorAligned == pc \in DataLive => Aligned(data)

\* C8: the rollout of iteration k (counted from 1) runs with mixing
\* probability mixing_rate^k, which lies in [0,1]; the probability is 1.0
\* before the first iteration and, for 0 < mixing_rate < 1, each iteration's
\* value is strictly below the one before.
C8_Decay ==
    /\ pc \in {"loop_init", "loop"} => RatEq(mixing, RatPow(cfg.mixing_rate, iter))
    /\ pc = "iter_run"
         => /\ Len(calls) = iter + 1
            /\ RatEq(ro.mixing, RatPow(cfg.mixing_rate, iter + 1))
            /\ RatEq(mixing, ro.mixing)
    /\ \A k \in 1..Len(calls) :
         /\ RatEq(calls[k], RatPow(cfg.mixing_rate, k))
         /\ RatLe(Zero, calls[k]) /\ RatLe(calls[k], One)
         /\ (RatLt(Zero, cfg.mixing_rate) /\ RatLt(cfg.mixing_rate, One))
              => RatLt(calls[k], IF k = 1 THEN One ELSE calls[k - 1])

C8_Witness ==
    /\ pc = "iter_run"
    /\ iter = 1
    /\ cfg.mixing_rate = Half
    /\ RatEq(ro.mixing, Rat(1, 4))

Rank(ph) ==
    CASE ph = "expert_test" -> 1
      [] ph = "initial_test" -> 2
      [] ph = "load" -> 3
      [] ph = "pretrain" -> 4
      [] ph = "iteration" -> 5
      [] ph = "policy_test" -> 5
      [] ph = "final_test" -> 6

Toggle(ph) ==
    CASE ph = "expert_test" -> cfg.test_expert
      [] ph = "initial_test" -> cfg.test_initial
      [] ph = "load" -> cfg.loaded
      [] ph = "pretrain" -> cfg.pretrain
      [] ph = "iteration" -> cfg.iterations > 0
      [] ph = "policy_test" -> cfg.test_policy /\ cfg.iterations > 0
      [] ph = "final_test" -> cfg.test_final

Count(ph) == Cardinality({i \in 1..Len(log) : log[i] = ph})

Phases == {"expert_test", "initial_test", "load", "pretrain", "iteration",
           "policy_test", "final_test"}

\* C9: the phases are entered in the order expert test, initial test, data
\* load, pretraining, iterations (each followed by its policy test), final
\* test; a phase is entered only if its toggle is set and at most once (an
\* iteration at most `iterations` times); a run that returns has entered
\* every phase whose toggle is set and has made exactly `iterations` passes,
\* none (no rollout, merge or fit of the loop) when iterations = 0.
C9_PhaseOrder ==
    /\ \A i \in 1..Len(log) : Toggle(log[i])
    /\ \A i \in 1..(Len(log) - 1) :
         /\ Rank(log[i]) <= Rank(log[i + 1])
         /\ Rank(log[i]) = Rank(log[i + 1]) => Rank(log[i]) = 5
         /\ log[i] = "policy_test" => log[i + 1] # "policy_test"
    /\ Count("iteration") <= cfg.iterations
    /\ Count("policy_test") <= Count("iteration")
    /\ Len(calls) = Count("iteration")
    /\ fits <= Count("pretrain") + Count("iteration")
    /\ pc = "done"
         => /\ \A ph \in Phases \ {"iteration", "policy_test"} :
                 Count(ph) = IF Toggle(ph) THEN 1 ELSE 0
            /\ Count("iteration") = cfg.iterations
            /\ Count("policy_test") = IF cfg.test_policy THEN cfg.iterations ELSE 0
            /\ fits = Count("pretrain") + cfg.iterations

C9_Witness ==
    /\ pc = "done"
    /\ cfg.iterations = 2
    /\ \A ph \in Phases : Toggle(ph)
    /\ Len(data.targets) >= 2

\* C10 (as claimed): whenever the learner is about to be fit after a merge,
\* and whenever a further merge is about to happen, the accumulated data as
\* merged has been persisted.
C10_PersistAfterMerge ==
    (\/ pc \in {"pretrain_fit", "iter_fit"}
     \/ pc = "iter_run" /\ (iter >= 1 \/ cfg.pretrain))
        => saved = data

\* C10 (amended): the same, when the option data_save_path is given.
C10_PersistWhenPathGiven ==
    DataPath # "None" => C10_PersistAfterMerge

C10_Witness ==
    /\ pc = "pretrain_fit"
    /\ DataPath # "None"
    /\ Len(data.targets) >= 2
    /\ saved = data

\* C14 (as claimed): when dagger returns, the returned policy is the one
\* obtained from the learner after its last fit, and the returned data is the
\* loaded data followed by the pretraining batch and the batch of every
\* iteration, in that order, record for record.
C14_TerminalResult ==
    pc = "done"
        => /\ policy = LearnerPolicy(fits)
           /\ data = expected

\* C17 (as claimed): the pretraining rollout runs with N = the option
\* roll_pretrain and T = the option T_pretrain when they are supplied, and
\* with rollouts and timesteps when they are absent.
C17_DocumentedPretrainOverrides ==
    pc = "pretrain_run"
        => /\ ro.T = OptGet(options, "T_pretrain", Timesteps)
           /\ ro.N = OptGet(options, "roll_pretrain", Rollouts)

IsPrefix(a, b) == Len(a) <= Len(b) /\ SubSeq(b, 1, Len(a)) = a

\* every sequence of d is an initial part of the same sequence of e
DataPrefix(d, e) ==
    /\ d.hasTargets => e.hasTargets
    /\ IsPrefix(d.targets, e.targets)
    /\ IsPrefix(d.actions, e.actions)
    /\ IsPrefix(d.rewards, e.rewards)
    /\ \A f \in DOMAIN d.observations :
         f \in DOMAIN e.observations /\ IsPrefix(d.observations[f], e.observations[f])

\* C16: from the data-load phase on, every step of dagger (a merge, a fit, a
\* save, a test, a failure) leaves each sequence of the accumulated data with
\* what it held before as its initial part: no sequence gets shorter and no
\* stored entry is altered or removed.
C16_NeverShrinks == [][(pc \in DataLive) => DataPrefix(data, data')]_vars

C16_Witness ==
    /\ pc = "done"
    /\ cfg.loaded
    /\ fits = 3
    /\ Len(data.targets) = 2
    /\ testSaves # {}

----------------------------------------------------------------------------
(* Properties of dagger's error handling                                   *)

\* the scalar configurations the specification calls invalid
InvalidCfg(c) ==
    \/ RatLt(c.mixing_rate, Zero) \/ RatLt(One, c.mixing_rate)
    \/ c.timesteps <= 0
    \/ c.rollouts <= 0
    \/ c.iterations < 0

\* C11 (as claimed): a call of dagger with an invalid scalar configuration
\* (mixing rate outside [0,1], timesteps or rollouts <= 0, iterations < 0)
\* performs no rollout, wait_for_rollout, system.step, fit or save, and does
\* not return normally.
C11_RejectedAtEntry ==
    InvalidCfg(cfg)
        => /\ rpc = "idle"
           /\ epCalls = <<>>
           /\ fits = 0
           /\ saved = NewData
           /\ testSaves = {}
           /\ pc # "done"

\* C12 (as claimed): the rollout never passes None to system.step, and a
\* fit on a dataset that lacks a field the learner requires ends with the
\* KeyError of that field.
C12_MissingFieldSurfaces ==
    /\ [](~noneSent)
    /\ [][(pc = "direct" /\ rpc = "returned" /\ pc' # pc
            /\ MissingFields(stub.fields, rdata.observations) # {})
           => (pc' = "raised" /\ err' = "KeyError")]_vars

\* C13: once a call has failed (a System or Expert call of a rollout,
\* learner.fit, learner.save, a save of a dataset, or any other exception),
\* the failure has reached dagger's caller and no further step of the run is
\* taken: the failed operation is not invoked again and no later phase runs.
C13_NoRetry ==
    /\ [](err # "none" => pc = "raised")
    /\ [][err = "none"]_vars

C13_Witness ==
    /\ pc = "raised"
    /\ err = "FitFailure"
    /\ fits = 1
    /\ iter = 0
    /\ Len(calls) = 1

\* C21: every fit is made on the accumulated data as merged, which is the
\* loaded data followed by every batch collected so far, the batch of the
\* same iteration included; the fit of an iteration is followed by a refresh
\* of dagger's policy; and the rollout of an iteration, a policy test and the
\* final test run with the policy of the most recent fit.
C21_FitAndPolicyFreshness ==
    /\ [](pc \in {"iter_run", "policy_test_run", "final_test_run"}
            => (ro.policy.kind = "learner" /\ ro.policy.val = fits))
    /\ [][(fits' # fits)
           => /\ fits' = fits + 1
              /\ pc \in {"pretrain_fit", "iter_fit"}
              /\ data = expected
              /\ pc = "iter_fit" => Len(log) > 0 /\ log[Len(log)] = "iteration"
              /\ pc' = "policy_test" => policy'.val = fits']_vars

C21_Witness ==
    /\ pc = "iter_run"
    /\ iter = 1
    /\ fits = 2
    /\ ro.policy.val = 2
    /\ cfg.loaded
    /\ data = expected
    /\ Len(log) >= 3

=============================================================================
